---- MODULE Spec2Model ----
(***************************************************************************)
(* A model of the sliced-PSF simulation: the main routine and sim.run of   *)
(* simulate.py, and is_power_of_two and sort_zemax_wfe_files of util.py.   *)
(*                                                                         *)
(* The program is sequential.  pc is the position in the main routine and  *)
(* in sim.run; every call the program makes on a pupil, an image, the      *)
(* composite image or the cube is appended to log, so that "before",       *)
(* "exactly once" and "never" are statements about log.                    *)
(*                                                                         *)
(* Wavelengths, plate scales and slice widths are integers (a wavelength   *)
(* in units of the wavelength interval).  The classes of pupil.py,         *)
(* products.py and zmx_parser.py are not part of the sources; what their   *)
(* methods do is taken from the design document and kept to provenance:    *)
(* each pupil and image carries hist, the chain of operations that made it.*)
(***************************************************************************)
EXTENDS Integers, Sequences, FiniteSets, TLC

VARIABLES
  cfg,                  \* read_psf_simulation_config_file's dictionary
  p,                    \* read_psf_simulation_parameters_file's dictionary
  waves,                \* the wavelength sweep of the main routine
  pc,                   \* position in the main routine / sim.run
  wi,                   \* index in waves of the wavelength being processed
  w,                    \* the global w of the main loop (read by sim.run)
  resampling_im,        \* the reference image all wavelengths are resampled to
  datacube,             \* sim.datacube
  pupil,                \* sim.run's local pupil
  im,                   \* sim.run's local im
  slices,               \* sim.run's local slices
  s,                    \* loop index of sim.run's loops
  this_composite_image, \* sim.run's local composite image
  res,                  \* the main loop's res
  warnings,             \* number of logger.warning calls
  outcome,              \* how the process ended, with the values the message names
  log,                  \* every call made so far, in order
  sort                  \* the state of one sort_zemax_wfe_files call

vars == <<cfg, p, waves, pc, wi, w, resampling_im, datacube, pupil, im, slices,
          s, this_composite_image, res, warnings, outcome, log, sort>>

mainVars == <<cfg, p, waves, pc, wi, w, resampling_im, datacube, pupil, im,
              slices, s, this_composite_image, res, warnings, outcome, log>>

----------------------------------------------------------------------------
(* Bounds of the model. *)

MaxWaves == 2           \* the sweep holds at most MaxWaves wavelengths
MaxSlices == 5          \* NSLICES ranges over 0..MaxSlices
MaxWfe == 2             \* WFE_DATA holds at most MaxWfe entries
MaxFiles == 3           \* the directory listing holds at most MaxFiles files

SamplingValues == {0, 1, 2, 3, 4, 100}  \* values of pupil_sampling
GammaValues == {1, 2}                   \* values of pupil_gamma
WidthValues == {1, 3}                   \* values of slicing.width
WfeSamplings == {2, 4}                  \* SAMPLING of a WFE map's header
WfeWaves == {2, 3}                      \* WAVE of a WFE_DATA entry

ResampleToValues == {1}                 \* pupil.resample_to, blueward of the sweep
WaveStartValues == {2}                  \* WAVELENGTH_START
WaveIntervalValues == {1}               \* WAVELENGTH_INTERVAL

----------------------------------------------------------------------------
(* Values. *)

NoObj == [hist |-> <<>>, wave |-> -1, pscale |-> -1, hfov |-> -1, gamma |-> -1,
          slice_number |-> 0, offset |-> 0, width |-> 0, phase |-> <<>>]

NoComposite == [wave |-> -1, slices |-> <<>>]

NoCube == [nwaves |-> -1, planes |-> <<>>, resampled |-> 0, written |-> 0]

NoOutcome == [how |-> "running", a |-> -1, b |-> -1]

Ev(op, by, wave, k, a, b) ==
  [op |-> op, by |-> by, wave |-> wave, k |-> k, a |-> a, b |-> b]

(* np.arange(start, stop, step) for a positive step. *)
RECURSIVE arange(_, _, _)
arange(start, stop, step) ==
  IF start >= stop THEN <<>>
  ELSE <<start>> \o arange(start + step, stop, step)

(* util.is_power_of_two; num/2 is Python 2's integer division. *)
RECURSIVE is_power_of_two(_)
is_power_of_two(num) ==
  IF num % 2 = 0 /\ num > 1 THEN is_power_of_two(num \div 2)
  ELSE num = 1

----------------------------------------------------------------------------
(* The collaborators: pupil.circular, the image and pupil classes,         *)
(* products.composite_image and products.cube.                             *)

circular(sampling, gamma) ==
  [NoObj EXCEPT !.hist = <<"circular">>, !.gamma = gamma,
                !.hfov = sampling * gamma]

(* The image conjugate to pupil pu at wavelength wave.  The plate scale of *)
(* an aperture's image is proportional to the wavelength; a pupil obtained *)
(* from an image keeps that image's grid.  hfov is in half samples.        *)
toConjugateImage(pu, wave) ==
  [pu EXCEPT !.hist = @ \o <<"toConjugateImage">>,
             !.wave = wave,
             !.pscale = IF pu.pscale = -1 THEN wave ELSE pu.pscale,
             !.hfov = IF pu.pscale = -1 THEN wave * pu.hfov ELSE pu.hfov]

toConjugatePupil(i) == [i EXCEPT !.hist = @ \o <<"toConjugatePupil">>]

getDetectorHFOV(i) == i.hfov

resample(i, pscale, hfov) ==
  [i EXCEPT !.hist = @ \o <<"resample">>, !.pscale = pscale, !.hfov = hfov]

sliceUp(i, width, offset, gamma, slice_number) ==
  [i EXCEPT !.hist = @ \o <<"sliceUp">>, !.width = width, !.offset = offset,
            !.slice_number = slice_number]

addToPhase(pu, wfe_d) == [pu EXCEPT !.phase = @ \o <<wfe_d>>]

composite_image(wave) == [wave |-> wave, slices |-> <<>>]

addSlice(c, i) == [c EXCEPT !.slices = @ \o <<i>>]

cube(nwaves) == [NoCube EXCEPT !.nwaves = nwaves]

addImage(c, image) == [c EXCEPT !.planes = @ \o <<image>>]

resampleAndCrop(c) == [c EXCEPT !.resampled = @ + 1]

write(c) == [c EXCEPT !.written = @ + 1]

----------------------------------------------------------------------------
(* The main routine up to the wavelength sweep. *)

(* An entry of WFE_DATA: the WAVE it is listed under and the SAMPLING of   *)
(* the header of the file at its PATH.  sim.run never reads a FIELD; the   *)
(* i-th entry is taken to be the map of field i.                           *)
WfeEntries == [WAVE : WfeWaves, SAMPLING : WfeSamplings]

WfeLists ==
  UNION {{[i \in 1..n |-> [WAVE |-> f[i].WAVE, SAMPLING |-> f[i].SAMPLING,
                           FIELD |-> i]] : f \in [1..n -> WfeEntries]}
         : n \in 0..MaxWfe}

SortIdle == [pc |-> "idle"]

Init ==
  /\ cfg \in [PUPIL_SAMPLING : SamplingValues, PUPIL_GAMMA : GammaValues,
              DO_WFE : BOOLEAN, SLICE_WIDTH : WidthValues,
              RESAMPLE_TO : ResampleToValues]
  /\ p \in [NSLICES : 0..MaxSlices, WAVELENGTH_START : WaveStartValues,
            WAVELENGTH_INTERVAL : WaveIntervalValues,
            WAVELENGTH_END : 0..(MaxWaves + 1), WFE_DATA : WfeLists]
  /\ p.WAVELENGTH_END >= p.WAVELENGTH_START - p.WAVELENGTH_INTERVAL
  /\ Len(arange(p.WAVELENGTH_START, p.WAVELENGTH_END + p.WAVELENGTH_INTERVAL,
                p.WAVELENGTH_INTERVAL)) <= MaxWaves
  /\ (~cfg.DO_WFE => p.WFE_DATA = <<>>)   \* WFE_DATA is read only under DO_WFE
  /\ waves = <<>>
  /\ pc = "start"
  /\ wi = 0
  /\ w = -1
  /\ resampling_im = NoObj
  /\ datacube = NoCube
  /\ pupil = NoObj
  /\ im = NoObj
  /\ slices = <<>>
  /\ s = 0
  /\ this_composite_image = NoComposite
  /\ res = NoComposite
  /\ warnings = 0
  /\ outcome = NoOutcome
  /\ log = <<>>
  /\ sort = SortIdle

(* simulate.py 192-212: the sweep, the reference pupil and its image. *)
MainReference ==
  /\ pc = "start"
  /\ waves' = arange(p.WAVELENGTH_START, p.WAVELENGTH_END + p.WAVELENGTH_INTERVAL,
                     p.WAVELENGTH_INTERVAL)
  /\ resampling_im' =
       toConjugateImage(circular(cfg.PUPIL_SAMPLING, cfg.PUPIL_GAMMA),
                        cfg.RESAMPLE_TO)
  /\ log' = log \o << Ev("circular", "main", cfg.RESAMPLE_TO, 0, 0, 0),
                      Ev("toConjugateImage", "main", cfg.RESAMPLE_TO, 0, 0, 0) >>
  /\ pc' = "sim"
  /\ UNCHANGED <<cfg, p, wi, w, datacube, pupil, im, slices, s,
                 this_composite_image, res, warnings, outcome, sort>>

(* simulate.py 218 and sim.__init__ (41-56): the cube is made for len(waves) planes. *)
MainSim ==
  /\ pc = "sim"
  /\ datacube' = cube(Len(waves))
  /\ log' = Append(log, Ev("cube", "main", -1, 0, Len(waves), 0))
  /\ pc' = "loop"
  /\ UNCHANGED <<cfg, p, waves, wi, w, resampling_im, pupil, im, slices, s,
                 this_composite_image, res, warnings, outcome, sort>>

(* simulate.py 220-222: the next wavelength of the sweep; sim.run is entered. *)
MainNextWave ==
  /\ pc = "loop"
  /\ wi < Len(waves)
  /\ wi' = wi + 1
  /\ w' = waves[wi + 1]
  /\ pc' = "checks"
  /\ UNCHANGED <<cfg, p, waves, resampling_im, datacube, pupil, im, slices, s,
                 this_composite_image, res, warnings, outcome, log, sort>>

----------------------------------------------------------------------------
(* sim.run(wave), with wave = w. *)

Exit(how, a, b) ==
  /\ pc' = "exit"
  /\ outcome' = [how |-> how, a |-> a, b |-> b]

(* simulate.py 73-74: the assertion on the number of slices. *)
NSlicesNoAssert(n) == TRUE

NSlicesIsOdd(n) == n % 2 = 1

(* simulate.py 59-83.  The configuration holds numbers, so int() cannot    *)
(* raise; an odd gamma is warned about; an even NSLICES and a sampling     *)
(* that is no power of two end the process.                                *)
RunSanityChecks ==
  /\ pc = "checks"
  /\ warnings' = IF cfg.PUPIL_GAMMA % 2 = 0 THEN warnings ELSE warnings + 1
  /\ IF ~NSlicesIsOdd(p.NSLICES)
       THEN Exit("nslices", p.NSLICES, -1)
       ELSE IF ~is_power_of_two(cfg.PUPIL_SAMPLING)
              THEN Exit("pow2", cfg.PUPIL_SAMPLING, -1)
              ELSE pc' = "setup" /\ UNCHANGED outcome
  /\ UNCHANGED <<cfg, p, waves, wi, w, resampling_im, datacube, pupil, im,
                 slices, s, this_composite_image, res, log, sort>>

(* simulate.py 87-89: the entrance pupil and the composite image. *)
RunSetup ==
  /\ pc = "setup"
  /\ pupil' = circular(cfg.PUPIL_SAMPLING, cfg.PUPIL_GAMMA)
  /\ this_composite_image' = composite_image(w)
  /\ log' = log \o << Ev("circular", "run", w, 0, 0, 0),
                      Ev("composite_image", "run", w, 0, 0, 0) >>
  /\ pc' = "first"
  /\ UNCHANGED <<cfg, p, waves, wi, w, resampling_im, datacube, im, slices, s,
                 res, warnings, outcome, sort>>

(* simulate.py 97. *)
RunFirstTransform ==
  /\ pc = "first"
  /\ im' = toConjugateImage(pupil, w)
  /\ log' = Append(log, Ev("toConjugateImage", "run", w, 0, 0, 0))
  /\ pc' = "resample"
  /\ UNCHANGED <<cfg, p, waves, wi, w, resampling_im, datacube, pupil, slices,
                 s, this_composite_image, res, warnings, outcome, sort>>

(* simulate.py 100: im is resampled in place to the reference grid. *)
RunResample ==
  /\ pc = "resample"
  /\ im' = resample(im, resampling_im.pscale, getDetectorHFOV(resampling_im))
  /\ log' = Append(log, Ev("resample", "run", w, 0, resampling_im.pscale,
                           getDetectorHFOV(resampling_im)))
  /\ pc' = "back"
  /\ UNCHANGED <<cfg, p, waves, wi, w, resampling_im, datacube, pupil, slices,
                 s, this_composite_image, res, warnings, outcome, sort>>

(* simulate.py 101 and 105. *)
RunBackToPupil ==
  /\ pc = "back"
  /\ pupil' = toConjugatePupil(im)
  /\ slices' = <<>>
  /\ s' = 0
  /\ log' = Append(log, Ev("toConjugatePupil", "run", w, 0, 0, 0))
  /\ pc' = "slicing"
  /\ UNCHANGED <<cfg, p, waves, wi, w, resampling_im, datacube, im,
                 this_composite_image, res, warnings, outcome, sort>>

(* simulate.py 108; (NSLICES-1)/2 is Python 2's integer division. *)
SliceOffsetFromNumber(sl) == ((sl + 1) - ((p.NSLICES - 1) \div 2)) * cfg.SLICE_WIDTH

SliceOffset(sl) == (sl - ((p.NSLICES - 1) \div 2)) * cfg.SLICE_WIDTH

(* simulate.py 107: each slice is cut from a fresh image of the resampled pupil. *)
SliceSourceReused == im

SliceSource == toConjugateImage(pupil, w)

(* simulate.py 106-115: one pass of the slicing loop, for s in range(NSLICES). *)
RunSlice ==
  /\ pc = "slicing"
  /\ s < p.NSLICES
  /\ LET offset == SliceOffset(s)
         sliced == sliceUp(SliceSource, cfg.SLICE_WIDTH, offset,
                           resampling_im.gamma, s + 1)
     IN /\ im' = sliced
        /\ slices' = Append(slices, sliced)
        /\ log' = log \o << Ev("toConjugateImage", "run", w, s + 1, 0, 0),
                            Ev("sliceUp", "run", w, s + 1, offset, cfg.SLICE_WIDTH) >>
  /\ s' = IF s + 1 < p.NSLICES THEN s + 1 ELSE 0
  /\ pc' = IF s + 1 < p.NSLICES THEN "slicing" ELSE "accumulate"
  /\ UNCHANGED <<cfg, p, waves, wi, w, resampling_im, datacube, pupil,
                 this_composite_image, res, warnings, outcome, sort>>

(* simulate.py 127-129: this_wfe_file is the PATH of the last entry of     *)
(* WFE_DATA whose WAVE is w; 0 when no entry has that WAVE (the name is    *)
(* then unbound).  An entry's index stands for its PATH.                   *)
SelectWfe(data, wave) ==
  LET hits == {i \in 1..Len(data) : data[i].WAVE = wave}
  IN IF hits = {} THEN 0 ELSE CHOOSE i \in hits : \A j \in hits : j <= i

(* simulate.py 135: the map's sampling against the pupil's. *)
WfeSamplingUnchecked(wfe_h) == FALSE

WfeSamplingDiffers(wfe_h) == wfe_h.SAMPLING # cfg.PUPIL_SAMPLING

(* simulate.py 152: the slice's image is added to the composite image. *)
AccumulateDropped(c, image) == c

Accumulate(c, image) == addSlice(c, image)

(* simulate.py 117-152: one pass of the loop over slices.  s counts the    *)
(* slices done.                                                            *)
RunAccumulate ==
  /\ pc = "accumulate"
  /\ s < Len(slices)
  /\ LET sl == slices[s + 1]
         new_pupil == toConjugatePupil(sl)
         toPupil == Ev("toConjugatePupil", "run", w, sl.slice_number, 0, 0)
         this_wfe_file == SelectWfe(p.WFE_DATA, w)
         wfe_h == p.WFE_DATA[this_wfe_file]
         phased == IF cfg.DO_WFE THEN addToPhase(new_pupil, this_wfe_file)
                   ELSE new_pupil
         image == toConjugateImage(phased, w)
     IN IF cfg.DO_WFE /\ this_wfe_file = 0
          THEN /\ pc' = "crashed"
               /\ outcome' = [how |-> "NameError", a |-> -1, b |-> -1]
               /\ log' = Append(log, toPupil)
               /\ UNCHANGED <<im, s, this_composite_image>>
          ELSE IF cfg.DO_WFE /\ WfeSamplingDiffers(wfe_h)
                 THEN /\ Exit("wfe_sampling", wfe_h.SAMPLING, cfg.PUPIL_SAMPLING)
                      /\ log' = Append(log, toPupil)
                      /\ UNCHANGED <<im, s, this_composite_image>>
                 ELSE /\ im' = image
                      /\ this_composite_image' = Accumulate(this_composite_image, image)
                      /\ log' = log \o <<toPupil>>
                           \o (IF cfg.DO_WFE
                                 THEN << Ev("addToPhase", "run", w, sl.slice_number,
                                            this_wfe_file, 0) >>
                                 ELSE <<>>)
                           \o << Ev("toConjugateImage", "run", w, sl.slice_number, 0, 0),
                                 Ev("addSlice", "run", w, sl.slice_number, 0, 0) >>
                      /\ s' = s + 1
                      /\ pc' = IF s + 1 < Len(slices) THEN "accumulate" ELSE "return"
                      /\ UNCHANGED outcome
  /\ UNCHANGED <<cfg, p, waves, wi, w, resampling_im, datacube, pupil, slices,
                 res, warnings, sort>>

(* simulate.py 157 and 222: sim.run returns its composite image to the main loop. *)
RunReturn ==
  /\ pc = "return"
  /\ res' = this_composite_image
  /\ log' = Append(log, Ev("return", "run", w, 0, 0, 0))
  /\ pc' = "add"
  /\ UNCHANGED <<cfg, p, waves, wi, w, resampling_im, datacube, pupil, im,
                 slices, s, this_composite_image, warnings, outcome, sort>>

----------------------------------------------------------------------------
(* The rest of the main routine. *)

MainAddImageTwice ==
  /\ pc = "add"
  /\ datacube' = addImage(addImage(datacube, res), res)
  /\ log' = log \o << Ev("addImage", "main", res.wave, 0, 0, 0),
                      Ev("addImage", "main", res.wave, 0, 0, 0) >>
  /\ pc' = "loop"
  /\ UNCHANGED <<cfg, p, waves, wi, w, resampling_im, pupil, im, slices, s,
                 this_composite_image, res, warnings, outcome, sort>>

(* simulate.py 223. *)
MainAddImage ==
  /\ pc = "add"
  /\ datacube' = addImage(datacube, res)
  /\ log' = Append(log, Ev("addImage", "main", res.wave, 0, 0, 0))
  /\ pc' = "loop"
  /\ UNCHANGED <<cfg, p, waves, wi, w, resampling_im, pupil, im, slices, s,
                 this_composite_image, res, warnings, outcome, sort>>

(* simulate.py 220-227: the output is made once the sweep is exhausted. *)
SweepUnfinished == wi < Len(waves) \/ wi = Len(waves)

SweepFinished == wi = Len(waves)

(* simulate.py 227-229, with args.f either way. *)
MainOutput ==
  /\ pc = "loop"
  /\ SweepFinished
  /\ \E f \in BOOLEAN :
       IF f
         THEN /\ datacube' = write(resampleAndCrop(datacube))
              /\ log' = log \o << Ev("resampleAndCrop", "main", -1, 0, 0, 0),
                                  Ev("write", "main", -1, 0, 0, 0) >>
         ELSE UNCHANGED <<datacube, log>>
  /\ pc' = "done"
  /\ outcome' = [how |-> "completed", a |-> -1, b |-> -1]
  /\ UNCHANGED <<cfg, p, waves, wi, w, resampling_im, pupil, im, slices, s,
                 this_composite_image, res, warnings, sort>>

Next ==
  \/ MainReference
  \/ MainSim
  \/ MainNextWave
  \/ RunSanityChecks
  \/ RunSetup
  \/ RunFirstTransform
  \/ RunResample
  \/ RunBackToPupil
  \/ RunSlice
  \/ RunAccumulate
  \/ RunReturn
  \/ MainAddImage
  \/ MainOutput

Spec == Init /\ [][Next]_vars

----------------------------------------------------------------------------
(* util.sort_zemax_wfe_files(logger, wfe_dir, prefix, waves, nfields).     *)
(* A file of the directory is a backup (its name ends in ~), other (its    *)
(* name lacks the prefix), invalid (parseFileHeader fails) or a WFE map    *)
(* with the wavelength and field of its header.                            *)

SortFileWaves == {1, 2, 3}
SortFileFields == {1, 2}
SortWaveLists == {<<>>, <<1>>, <<1, 2>>}
SortNFields == {1, 2}

SortFiles ==
  [kind : {"backup", "other", "invalid"}, WAVE : {0}, FIELD : {0}]
    \cup [kind : {"wfe"}, WAVE : SortFileWaves, FIELD : SortFileFields]

SortListings == UNION {[1..n -> SortFiles] : n \in 0..MaxFiles}

InitSort ==
  /\ cfg = [PUPIL_SAMPLING |-> 2, PUPIL_GAMMA |-> 2, DO_WFE |-> FALSE,
            SLICE_WIDTH |-> 1, RESAMPLE_TO |-> 1]
  /\ p = [NSLICES |-> 1, WAVELENGTH_START |-> 2, WAVELENGTH_INTERVAL |-> 1,
          WAVELENGTH_END |-> 1, WFE_DATA |-> <<>>]
  /\ waves = <<>>
  /\ pc = "idle"
  /\ wi = 0
  /\ w = -1
  /\ resampling_im = NoObj
  /\ datacube = NoCube
  /\ pupil = NoObj
  /\ im = NoObj
  /\ slices = <<>>
  /\ s = 0
  /\ this_composite_image = NoComposite
  /\ res = NoComposite
  /\ warnings = 0
  /\ outcome = NoOutcome
  /\ log = <<>>
  /\ sort \in [pc : {"scan"}, listing : SortListings, waves : SortWaveLists,
               nfields : SortNFields, i : {0}, res : {<<>>}, result : {"none"}]

(* util.py 135-138: the requested wavelength the header's wavelength equals. *)
WaveMatches(requested, hwave) == \E j \in 1..Len(requested) : requested[j] = hwave

(* util.py 122-146: one pass of the loop over the directory. *)
SortScan ==
  /\ sort.pc = "scan"
  /\ sort.i < Len(sort.listing)
  /\ LET f == sort.listing[sort.i + 1]
         keep == f.kind = "wfe" /\ WaveMatches(sort.waves, f.WAVE)
     IN sort' = [sort EXCEPT
                   !.i = @ + 1,
                   !.res = IF keep
                             THEN Append(@, [PATH |-> sort.i + 1, WAVE |-> f.WAVE,
                                             FIELD |-> f.FIELD])
                             ELSE @]
  /\ UNCHANGED mainVars

(* collections.Counter of a key over res: the count of each value present. *)
CountOf(rs, key, v) == Cardinality({i \in 1..Len(rs) : rs[i][key] = v})

Keys(rs, key) == {rs[i][key] : i \in 1..Len(rs)}

CounterValues(rs, key) == {CountOf(rs, key, v) : v \in Keys(rs, key)}

(* util.py 148-177: the sanity checks, in order, and the return. *)
SortChecksResult(rs, requested, nfields) ==
  IF Len(rs) = 0 THEN "exit_empty"
  ELSE IF Cardinality(Keys(rs, "WAVE")) # Len(requested) THEN "exit_waves"
  ELSE IF Cardinality(CounterValues(rs, "WAVE")) # 1
          /\ Cardinality(CounterValues(rs, "FIELD")) # 1 THEN "exit_incomplete"
  ELSE IF Cardinality(Keys(rs, "FIELD")) < nfields THEN "exit_fields"
  ELSE "returned"

SortChecks ==
  /\ sort.pc = "scan"
  /\ sort.i = Len(sort.listing)
  /\ sort' = [sort EXCEPT !.pc = "done",
                          !.result = SortChecksResult(sort.res, sort.waves, sort.nfields)]
  /\ UNCHANGED mainVars

NextSort == SortScan \/ SortChecks

SpecSort == InitSort /\ [][NextSort]_vars

----------------------------------------------------------------------------
(* Reading the log. *)

At(op) == {i \in 1..Len(log) : log[i].op = op}

AtWave(op, wave) == {i \in At(op) : log[i].by = "run" /\ log[i].wave = wave}

ByRun == {i \in 1..Len(log) : log[i].by = "run"}

Transforms == At("toConjugateImage") \cup At("toConjugatePupil")

(* The slicing loop of the current sim.run call has finished. *)
Sliced == pc \in {"accumulate", "return"} /\ wi >= 1

SlicedHist == << "circular", "toConjugateImage", "resample", "toConjugatePupil",
                 "toConjugateImage", "sliceUp" >>

----------------------------------------------------------------------------
(* C1: sim.run makes the slices 1..NSLICES in ascending order; slice k is  *)
(* cut at offset (k - 1 - (NSLICES-1)/2) * SLICE_WIDTH, so the middle      *)
(* slice is at offset 0, slices k and NSLICES+1-k are at opposite offsets, *)
(* and five slices of width w are at -2w, -w, 0, w, 2w.                    *)
C1_SliceOffsets ==
  /\ \A k \in 1..Len(slices) :
       /\ slices[k].slice_number = k
       /\ 2 * slices[k].offset = (2 * k - 1 - p.NSLICES) * cfg.SLICE_WIDTH
       /\ slices[k].width = cfg.SLICE_WIDTH
  /\ \A i \in At("sliceUp") :
       2 * log[i].a = (2 * log[i].k - 1 - p.NSLICES) * cfg.SLICE_WIDTH
  /\ Sliced =>
       /\ Len(slices) = p.NSLICES
       /\ slices[(p.NSLICES + 1) \div 2].offset = 0
       /\ \A k \in 1..p.NSLICES :
            slices[k].offset = - slices[p.NSLICES + 1 - k].offset
       /\ p.NSLICES = 5 =>
            [k \in 1..5 |-> slices[k].offset]
              = << -2 * cfg.SLICE_WIDTH, -cfg.SLICE_WIDTH, 0,
                   cfg.SLICE_WIDTH, 2 * cfg.SLICE_WIDTH >>

C1_Witness ==
  /\ Sliced
  /\ p.NSLICES = 5
  /\ cfg.SLICE_WIDTH = 3
  /\ slices[1].offset = -6
  /\ slices[5].offset = 6

(* C2: a PUPIL_SAMPLING that is no power of two ends the program before    *)
(* any pupil<->image transform has run anywhere in it; a power of two does *)
(* not end it at that check.                                               *)
C2_AbortBeforeAnyTransform ==
  /\ outcome.how = "pow2" => Transforms = {}
  /\ (cfg.PUPIL_SAMPLING \in {1, 2, 4} => outcome.how # "pow2")
  /\ (cfg.PUPIL_SAMPLING \in {0, 3, 100} /\ p.NSLICES % 2 = 1 /\ wi >= 1
        /\ pc # "checks" => outcome.how = "pow2")

C4_WfeSamplingAbort ==
  /\ \A i \in At("addToPhase") :
       p.WFE_DATA[log[i].a].SAMPLING = cfg.PUPIL_SAMPLING
  /\ cfg.DO_WFE =>
       \A i \in At("addSlice") \cup At("addImage") :
         /\ SelectWfe(p.WFE_DATA, log[i].wave) # 0
         /\ p.WFE_DATA[SelectWfe(p.WFE_DATA, log[i].wave)].SAMPLING
              = cfg.PUPIL_SAMPLING
  /\ outcome.how = "wfe_sampling" =>
       /\ pc = "exit"
       /\ outcome.a = p.WFE_DATA[SelectWfe(p.WFE_DATA, w)].SAMPLING
       /\ outcome.b = cfg.PUPIL_SAMPLING
       /\ outcome.a # outcome.b
       /\ AtWave("addToPhase", w) \cup AtWave("addSlice", w) = {}
       /\ {i \in At("addImage") : log[i].wave = w} = {}
       /\ this_composite_image.slices = <<>>
       /\ Len(datacube.planes) = wi - 1

C4_Witness ==
  /\ outcome.how = "wfe_sampling"
  /\ outcome.a = 4
  /\ outcome.b = 2
  /\ wi = 2
  /\ Len(datacube.planes) = 1

(* C5: sort_zemax_wfe_files returns exactly when the valid files matching  *)
(* a requested wavelength are non-empty, cover every requested wavelength, *)
(* are as many for each wavelength, are as many for each field, and have   *)
(* at least nfields distinct fields; otherwise it ends the process.        *)
C5_SortAbortsOnAnyDefect ==
  sort.pc = "done" =>
    (sort.result = "returned" <=>
       /\ Len(sort.res) # 0
       /\ Cardinality(Keys(sort.res, "WAVE")) = Len(sort.waves)
       /\ Cardinality(CounterValues(sort.res, "WAVE")) = 1
       /\ Cardinality(CounterValues(sort.res, "FIELD")) = 1
       /\ Cardinality(Keys(sort.res, "FIELD")) >= sort.nfields)

(* C6: in a run that completes, the cube is made once for len(waves)       *)
(* planes and addImage is called once per wavelength, in the ascending     *)
(* order of the sweep, with the composite image sim.run returned for it;   *)
(* the cube never holds more planes than wavelengths processed and holds   *)
(* len(waves) planes after the sweep.                                      *)
C6_OnePlanePerWave ==
  /\ Cardinality(At("cube")) <= 1
  /\ \A i \in At("cube") : log[i].a = Len(waves) /\ datacube.nwaves = Len(waves)
  /\ \A i, j \in 1..Len(waves) : i < j => waves[i] < waves[j]
  /\ Len(datacube.planes) <= wi
  /\ Len(datacube.planes) = Cardinality(At("addImage"))
  /\ \A k \in 1..Len(datacube.planes) :
       /\ datacube.planes[k].wave = waves[k]
       /\ Len(datacube.planes[k].slices) = p.NSLICES
       /\ \A n \in 1..p.NSLICES : datacube.planes[k].slices[n].wave = waves[k]
  /\ \A i \in At("addImage") :
       /\ i > 1
       /\ log[i - 1].op = "return"
       /\ log[i - 1].wave = log[i].wave
  /\ (pc = "loop" /\ wi >= 1 => datacube.planes[wi] = res)
  /\ (pc = "done" =>
        /\ Len(datacube.planes) = Len(waves)
        /\ datacube.nwaves = Len(waves)
        /\ \A k \in 1..Len(waves) :
             Cardinality({i \in At("addImage") : log[i].wave = waves[k]}) = 1)

C6_Witness ==
  /\ pc = "done"
  /\ Len(waves) = 2
  /\ Len(datacube.planes) = 2
  /\ datacube.planes[1].wave = 2
  /\ datacube.planes[2].wave = 3

(* C7: resampleAndCrop is called on the cube at most once, after addImage  *)
(* has been called for every wavelength; no addImage or addSlice follows   *)
(* it.                                                                     *)
C7_ResampleAfterSweep ==
  /\ Cardinality(At("resampleAndCrop")) <= 1
  /\ datacube.resampled = Cardinality(At("resampleAndCrop"))
  /\ \A i \in At("resampleAndCrop") :
       /\ Cardinality({j \in At("addImage") : j < i}) = Len(waves)
       /\ \A j \in At("addImage") \cup At("addSlice") : j < i
       /\ Len(datacube.planes) = Len(waves)
       /\ pc = "done"

C7_Witness ==
  /\ datacube.resampled = 1
  /\ Len(waves) = 2
  /\ Len(datacube.planes) = 2

(* C8: one sim.run call resamples once: the image of the first transform,  *)
(* before any other transform or sliceUp, to the reference image's plate   *)
(* scale and half field of view; every image that is sliced comes from a   *)
(* transform of the pupil of that resampled image.                         *)
C8_ResampleOnceThenSlice ==
  /\ \A k \in 1..wi :
       LET v == waves[k]
           rs == AtWave("resample", v)
       IN /\ Cardinality(rs) <= 1
          /\ (k < wi \/ pc \notin {"checks", "setup", "first", "resample", "exit"}
                => Cardinality(rs) = 1)
          /\ \A i \in rs :
               /\ log[i].a = resampling_im.pscale
               /\ log[i].b = getDetectorHFOV(resampling_im)
               /\ i > 2
               /\ log[i - 1] = Ev("toConjugateImage", "run", v, 0, 0, 0)
               /\ log[i - 2].op = "composite_image"
               /\ \A j \in AtWave("toConjugateImage", v)
                            \cup AtWave("toConjugatePupil", v)
                            \cup AtWave("sliceUp", v) : j = i - 1 \/ j > i
          /\ \A j \in AtWave("sliceUp", v) : rs # {}
  /\ \A k \in 1..Len(slices) :
       /\ slices[k].hist = SlicedHist
       /\ slices[k].pscale = resampling_im.pscale
       /\ slices[k].hfov = getDetectorHFOV(resampling_im)

C8_Witness ==
  /\ pc = "accumulate"
  /\ wi = 2
  /\ Len(slices) = 3
  /\ Cardinality(At("resample")) = 2

(* C9: a sim.run call that returns has made one composite image for its    *)
(* wavelength and called addSlice on it NSLICES times, once for each       *)
(* slice_number of 1..NSLICES, before the image is returned and added.     *)
C9_OneAddSlicePerSlice ==
  /\ Len(this_composite_image.slices) <= p.NSLICES
  /\ \A i \in At("return") :
       LET v == log[i].wave
       IN /\ Cardinality(AtWave("composite_image", v)) = 1
          /\ \A j \in AtWave("composite_image", v) \cup AtWave("addSlice", v) : j < i
          /\ Cardinality(AtWave("addSlice", v)) = p.NSLICES
          /\ \A n \in 1..p.NSLICES :
               Cardinality({j \in AtWave("addSlice", v) : log[j].k = n}) = 1
  /\ pc \in {"return", "add"} =>
       /\ this_composite_image.wave = w
       /\ Len(this_composite_image.slices) = p.NSLICES
       /\ \A n \in 1..p.NSLICES : this_composite_image.slices[n].slice_number = n
  /\ \A k \in 1..Len(datacube.planes) :
       /\ Len(datacube.planes[k].slices) = p.NSLICES
       /\ \A n \in 1..p.NSLICES : datacube.planes[k].slices[n].slice_number = n

C9_Witness ==
  /\ pc = "done"
  /\ p.NSLICES = 5
  /\ ~cfg.DO_WFE
  /\ Len(waves) = 1
  /\ Len(datacube.planes) = 1
  /\ Len(datacube.planes[1].slices) = 5
  /\ Cardinality(At("composite_image")) = 1

(* C10: with WFE injection on, the map added to the pupil of slice k at    *)
(* wavelength L comes from a WFE_DATA entry of wavelength L and of slice   *)
(* k's field (so two slices of a wavelength get the maps of two fields),   *)
(* and a slice without such an entry is not accumulated; with WFE          *)
(* injection off the slice's pupil is transformed unmodified.              *)
C10_WfeMatchesWaveAndField ==
  /\ \A i \in At("addToPhase") : p.WFE_DATA[log[i].a].WAVE = log[i].wave
  /\ \A i, j \in At("addToPhase") :
       log[i].wave = log[j].wave /\ log[i].k # log[j].k
         => p.WFE_DATA[log[i].a].FIELD # p.WFE_DATA[log[j].a].FIELD
  /\ cfg.DO_WFE =>
       \A i \in At("addSlice") :
         \E j \in At("addToPhase") :
           j < i /\ log[j].wave = log[i].wave /\ log[j].k = log[i].k
  /\ ~cfg.DO_WFE =>
       /\ At("addToPhase") = {}
       /\ \A n \in 1..Len(this_composite_image.slices) :
            this_composite_image.slices[n].phase = <<>>

====
